---- MODULE Spec2Model ----
(***************************************************************************)
(* Game engine of the card-comparison game: deal (gameUtils.ts), round     *)
(* resolver (compareCards, checkGameEnd) and the phase orchestrator of     *)
(* services/gameService.ts (startGame, playCard, selectAttributeAndProcess,*)
(* processRoundResult, collectWinningsAndPrepareNextRound, startNextRound) *)
(* running against the shared store games/{roomId} + rooms/{roomId}.       *)
(*                                                                         *)
(* A hand is kept as a multiset (card id -> number of copies): every hand  *)
(* the orchestrator writes after the deal went through shuffleArray, and   *)
(* the only operations on a hand are filter(id !== cardId), concatenation  *)
(* and length, none of which looks at the order.  The store drops empty    *)
(* arrays, empty objects and null, so an all-zero hand, an empty           *)
(* currentRoundCards and NULL stand for "absent in the snapshot".          *)
(***************************************************************************)
EXTENDS Integers, Sequences, FiniteSets, TLC

NULL == "null"
\* compareCards starts from winner = '' (gameUtils.ts:62)
NoWinner == ""

\* ------------------------------------------------------------------ bounds
MaxRound == 3
MaxTimers == 2
MaxHistory == 2
MaxStarts == 2

\* ------------------------------------------------- seats, catalog, deck
\* seat nicknames in key order: the store returns object keys in key order
SeatNames == <<"A", "B", "C", "D", "E", "F">>

Range(s) == {s[i] : i \in DOMAIN s}

\* Object.keys(obj) / the key part of Object.entries(obj), for a set of keys
KeysInOrder(keys) ==
    LET idx == {i \in DOMAIN SeatNames : SeatNames[i] \in keys}
        nth(k) == CHOOSE i \in idx : Cardinality({j \in idx : j < i}) = k - 1
    IN [k \in 1..Cardinality(idx) |-> SeatNames[nth(k)]]

Attributes == {"X", "Y"}

\* the catalog of the selected deck (getDeckCards), Card records in order
DeckCards ==
    << [id |-> "c1", attributes |-> [X |-> 3, Y |-> 1]],
       [id |-> "c2", attributes |-> [X |-> 1, Y |-> 3]],
       [id |-> "c3", attributes |-> [X |-> 3, Y |-> 2]] >>

\* the seats of the room
RoomPlayers == {"A", "B"}

\* the ids of a catalog
CardIdsOf(cards) == {cards[i].id : i \in DOMAIN cards}

\* the attribute names the cards of a catalog expose
AttributesOf(cards) == UNION {DOMAIN cards[i].attributes : i \in DOMAIN cards}

\* ------------------------------------------------------------ pure helpers
\* shuffleArray: Fisher-Yates can return every permutation of its input
shuffleArray(arr) ==
    {s \in [DOMAIN arr -> Range(arr)] :
        \A x \in Range(arr) :
            Cardinality({i \in DOMAIN arr : s[i] = x})
                = Cardinality({i \in DOMAIN arr : arr[i] = x})}

\* Array.prototype.slice(startIndex, endIndex) on 0-based indices
slice(arr, startIndex, endIndex) ==
    [i \in 1..(endIndex - startIndex) |-> arr[startIndex + i]]

\* faulty variant of the remainder loop: playerIndex is never advanced
RECURSIVE dealRemainderStuck(_, _, _, _, _)
dealRemainderStuck(playerCards, shuffledCards, players, remainderIndex, playerIndex) ==
    IF remainderIndex < Len(shuffledCards)
    THEN dealRemainderStuck(
            [playerCards EXCEPT ![players[playerIndex + 1]] =
                Append(@, shuffledCards[remainderIndex + 1])],
            shuffledCards, players,
            remainderIndex + 1,
            playerIndex)
    ELSE playerCards

\* the while loop of distributeCards: hands out the cards left after the
\* equal slices, one at a time, cycling players from index 0
RECURSIVE dealRemainder(_, _, _, _, _)
dealRemainder(playerCards, shuffledCards, players, remainderIndex, playerIndex) ==
    IF remainderIndex < Len(shuffledCards)
    THEN dealRemainder(
            [playerCards EXCEPT ![players[playerIndex + 1]] =
                Append(@, shuffledCards[remainderIndex + 1])],
            shuffledCards, players,
            remainderIndex + 1,
            (playerIndex + 1) % Len(players))
    ELSE playerCards

\* the forEach of distributeCards: one contiguous slice of cardsPerPlayer
\* cards per player, in player-list order
dealSlices(shuffledCards, players) ==
    LET cardsPerPlayer == Len(shuffledCards) \div Len(players)
    IN [p \in Range(players) |->
          LET index == (CHOOSE i \in DOMAIN players :
                          /\ players[i] = p
                          /\ \A j \in DOMAIN players : players[j] = p => j <= i) - 1
          IN slice(shuffledCards, index * cardsPerPlayer,
                   index * cardsPerPlayer + cardsPerPlayer)]

\* faulty variant of distributeCards: the cards left after the equal
\* slices are not handed out
distributeCardsNoRemainder(shuffledCards, players) ==
    dealSlices(shuffledCards, players)

\* distributeCards after its shuffle: shuffledCards is the shuffled id list
distributeCards(shuffledCards, players) ==
    dealRemainder(dealSlices(shuffledCards, players), shuffledCards, players,
                  Len(players) * (Len(shuffledCards) \div Len(players)), 0)

\* a hand as a multiset over the catalog ids
HandOf(ids, cardIds) ==
    [c \in cardIds |-> Cardinality({i \in DOMAIN ids : ids[i] = c})]

\* hand.length: the copies held, counted over all card ids
HandSize(hand) ==
    Cardinality(UNION {{c} \X (1..hand[c]) : c \in DOMAIN hand})

\* Object.entries(roundCards) in iteration order
Entries(roundCards) ==
    LET keys == KeysInOrder(DOMAIN roundCards)
    IN [k \in DOMAIN keys |-> <<keys[k], roundCards[keys[k]]>>]

\* allCards.find(c => c.id === cardId): the index of the first match, 0 if none
findCard(cards, cardId) ==
    IF \E i \in DOMAIN cards : cards[i].id = cardId
    THEN CHOOSE i \in DOMAIN cards :
            /\ cards[i].id = cardId
            /\ \A j \in DOMAIN cards : cards[j].id = cardId => i <= j
    ELSE 0

\* card && card.attributes[attribute] !== undefined
hasAttribute(cards, cardId, attribute) ==
    /\ findCard(cards, cardId) # 0
    /\ attribute \in DOMAIN cards[findCard(cards, cardId)].attributes

valueOf(cards, cardId, attribute) ==
    cards[findCard(cards, cardId)].attributes[attribute]

\* faulty variant of the comparison: value >= maxValue, the last of
\* several greatest plays wins
RECURSIVE compareLoopLastWins(_, _, _, _, _, _)
compareLoopLastWins(entries, k, attribute, cards, maxValue, winner) ==
    IF k > Len(entries) THEN winner
    ELSE LET playerNickname == entries[k][1]
             cardId == entries[k][2]
         IN IF /\ hasAttribute(cards, cardId, attribute)
               /\ valueOf(cards, cardId, attribute) >= maxValue
            THEN compareLoopLastWins(entries, k + 1, attribute, cards,
                             valueOf(cards, cardId, attribute), playerNickname)
            ELSE compareLoopLastWins(entries, k + 1, attribute, cards, maxValue, winner)

\* faulty variant of the comparison: a play without the attribute ends the
\* comparison without a winner
RECURSIVE compareLoopAllOrNone(_, _, _, _, _, _)
compareLoopAllOrNone(entries, k, attribute, cards, maxValue, winner) ==
    IF k > Len(entries) THEN winner
    ELSE LET playerNickname == entries[k][1]
             cardId == entries[k][2]
         IN IF ~hasAttribute(cards, cardId, attribute)
            THEN NoWinner
            ELSE IF valueOf(cards, cardId, attribute) > maxValue
                 THEN compareLoopAllOrNone(entries, k + 1, attribute, cards,
                                  valueOf(cards, cardId, attribute), playerNickname)
                 ELSE compareLoopAllOrNone(entries, k + 1, attribute, cards,
                                           maxValue, winner)

\* the forEach body of compareCards folded over the entries
RECURSIVE compareLoop(_, _, _, _, _, _)
compareLoop(entries, k, attribute, cards, maxValue, winner) ==
    IF k > Len(entries) THEN winner
    ELSE LET playerNickname == entries[k][1]
             cardId == entries[k][2]
         IN IF /\ hasAttribute(cards, cardId, attribute)
               /\ valueOf(cards, cardId, attribute) > maxValue
            THEN compareLoop(entries, k + 1, attribute, cards,
                             valueOf(cards, cardId, attribute), playerNickname)
            ELSE compareLoop(entries, k + 1, attribute, cards, maxValue, winner)

\* compareCards(...).winner
compareWinner(entries, attribute, cards) ==
    compareLoop(entries, 1, attribute, cards, -1, NoWinner)

\* compareCards(...).results
compareResults(entries, attribute, cards) ==
    LET ok == {k \in DOMAIN entries : hasAttribute(cards, entries[k][2], attribute)}
    IN [p \in {entries[k][1] : k \in ok} |->
          LET k == CHOOSE j \in ok : entries[j][1] = p
          IN [cardId |-> entries[k][2],
              value |-> valueOf(cards, entries[k][2], attribute)]]

\* faulty variant of checkGameEnd: activePlayers.length >= 1
checkGameEndSomeActive(players) ==
    LET activePlayers == {p \in DOMAIN players : players[p].status = "active"}
    IN IF Cardinality(activePlayers) >= 1
       THEN players[CHOOSE p \in activePlayers : TRUE].nickname
       ELSE NULL

\* checkGameEnd(players): players maps a key to a Player record
checkGameEnd(players) ==
    LET activePlayers == {p \in DOMAIN players : players[p].status = "active"}
    IN IF Cardinality(activePlayers) = 1
       THEN players[CHOOSE p \in activePlayers : TRUE].nickname
       ELSE NULL

\* ------------------------------------------------------------------ state
VARIABLES
    allCards,           \* the catalog every client holds (Card[])
    status,             \* rooms/{roomId}/players/{p}/status
    gamePhase,          \* "absent" until games/{roomId} is written
    currentRound,
    currentPlayer,
    playerCards,        \* player -> hand
    currentRoundCards,  \* partial map player -> card id
    selectedAttribute,
    roundWinner,
    gameWinner,
    roundHistory,
    timers,             \* pending setTimeout callbacks, by kind
    args,               \* arguments of a call of a pure helper
    result,             \* its return value once called
    clients             \* what the clients hold between two awaits: the
                        \* host screen's local gameState, the calls of
                        \* playCard past their reads, the bot controller's refs

gameVars == <<gamePhase, currentRound, currentPlayer, playerCards,
              currentRoundCards, selectedAttribute, roundWinner, gameWinner,
              roundHistory>>

\* everything the handlers can write in the store
storeVars == <<status, gameVars>>

callVars == <<args, result, clients>>

vars == <<allCards, status, gamePhase, currentRound, currentPlayer, playerCards,
          currentRoundCards, selectedAttribute, roundWinner, gameWinner,
          roundHistory, timers, args, result, clients>>

NoCall == [fn |-> "none"]

NotCalled == [done |-> FALSE]

NoTimers == [spin |-> 0, process |-> 0, collect |-> 0, finish |-> 0, next |-> 0]

NoCards == [p \in {} |-> "c1"]

\* no screen mounted, no call of playCard in progress, a bot controller
\* that has not run yet (useRef('') / useRef(0))
NoClients ==
    [screen |-> "unmounted",
     effect |-> "idle",
     starts |-> 0,
     plays |-> [p \in {} |-> 0],
     writes |-> [p \in {} |-> 0],
     lastSeen |-> [p \in {} |-> 0],
     processedActions |-> [p \in {} |-> 0],
     botActions |-> {}]

\* the seats of the room and the ids of the catalog, as the handlers see them
Seats == DOMAIN status

CardIds == CardIdsOf(allCards)

\* the Player records of the room, as the handlers read them
roomPlayers(st) == [p \in DOMAIN st |-> [nickname |-> p, status |-> st[p]]]

PendingChains == timers.process + timers.collect + timers.finish + timers.next

\* a room with its seats and catalog, no match started
Lobby(cards, seats) ==
    /\ allCards = cards
    /\ status = [p \in seats |-> "active"]
    /\ gamePhase = "absent"
    /\ currentRound = 0
    /\ currentPlayer = NULL
    /\ playerCards = [p \in seats |-> [c \in CardIdsOf(cards) |-> 0]]
    /\ currentRoundCards = NoCards
    /\ selectedAttribute = NULL
    /\ roundWinner = NULL
    /\ gameWinner = NULL
    /\ roundHistory = <<>>
    /\ timers = NoTimers

Init ==
    /\ Lobby(DeckCards, RoomPlayers)
    /\ args = NoCall
    /\ result = NotCalled
    /\ clients = NoClients

\* ---------------------------------------------------------------- actions
\* faulty variant of startGame: the 4 s timer is not armed
StartGameNoTimer ==
    /\ UNCHANGED <<allCards, callVars, timers>>
    /\ gamePhase = "absent"
    /\ \E shuffledCards \in shuffleArray([i \in DOMAIN allCards |-> allCards[i].id]),
          firstPlayer \in Seats :
         /\ playerCards' =
               [p \in Seats |->
                   HandOf(distributeCards(shuffledCards, KeysInOrder(Seats))[p],
                          CardIds)]
         /\ currentPlayer' = firstPlayer
    /\ status' = [p \in Seats |-> "active"]
    /\ currentRound' = 1
    /\ gamePhase' = "spinning"
    /\ currentRoundCards' = NoCards
    /\ selectedAttribute' = NULL
    /\ roundWinner' = NULL
    /\ gameWinner' = NULL
    /\ roundHistory' = <<>>

\* what startGame writes: the deal, the lead, the match; and the 4 s timer
\* it arms
startGameWrites ==
    /\ \E shuffledCards \in shuffleArray([i \in DOMAIN allCards |-> allCards[i].id]),
          firstPlayer \in Seats :
         /\ playerCards' =
               [p \in Seats |->
                   HandOf(distributeCards(shuffledCards, KeysInOrder(Seats))[p],
                          CardIds)]
         /\ currentPlayer' = firstPlayer
    /\ status' = [p \in Seats |-> "active"]
    /\ currentRound' = 1
    /\ gamePhase' = "spinning"
    /\ currentRoundCards' = NoCards
    /\ selectedAttribute' = NULL
    /\ roundWinner' = NULL
    /\ gameWinner' = NULL
    /\ roundHistory' = <<>>
    /\ timers' = [timers EXCEPT !.spin = @ + 1]

\* startGame, called once for a room that has no match yet
StartGame ==
    /\ UNCHANGED <<allCards, callVars>>
    /\ gamePhase = "absent"
    /\ startGameWrites

\* the setTimeout callback of startGame: an unconditional write
SpinTimer ==
    /\ UNCHANGED <<allCards, callVars>>
    /\ timers.spin > 0
    /\ timers' = [timers EXCEPT !.spin = @ - 1]
    /\ gamePhase' = "selecting"
    /\ UNCHANGED <<status, currentRound, currentPlayer, playerCards,
                   currentRoundCards, selectedAttribute, roundWinner,
                   gameWinner, roundHistory>>

\* faulty variant of playCard: the entries are counted against all the
\* seats of the room, eliminated ones included
playCardWritesAllSeats(playerNickname, cardId) ==
    LET totalPlayers == Cardinality(Seats)
        updatedCards ==
           [p \in DOMAIN currentRoundCards \cup {playerNickname} |->
               IF p = playerNickname THEN cardId ELSE currentRoundCards[p]]
    IN /\ currentRoundCards' = updatedCards
       /\ gamePhase' =
             IF Cardinality(DOMAIN updatedCards) = totalPlayers
             THEN "animating-play" ELSE gamePhase

\* faulty variant of playCard: the whole map is written, not the entry
playCardWritesWholeMap(playerNickname, cardId) ==
    LET totalActivePlayers ==
           Cardinality({p \in Seats : status[p] = "active"})
        updatedCards ==
           [p \in DOMAIN currentRoundCards \cup {playerNickname} |->
               IF p = playerNickname THEN cardId ELSE currentRoundCards[p]]
    IN /\ currentRoundCards' = [p \in {playerNickname} |-> cardId]
       /\ gamePhase' =
             IF Cardinality(DOMAIN updatedCards) = totalActivePlayers
             THEN "animating-play" ELSE gamePhase

\* what playCard writes: the entry, then the phase when the entries it
\* computed from its snapshot number the active players
playCardWrites(playerNickname, cardId) ==
    LET totalActivePlayers ==
           Cardinality({p \in Seats : status[p] = "active"})
        updatedCards ==
           [p \in DOMAIN currentRoundCards \cup {playerNickname} |->
               IF p = playerNickname THEN cardId ELSE currentRoundCards[p]]
    IN /\ currentRoundCards' = updatedCards
       /\ gamePhase' =
             IF Cardinality(DOMAIN updatedCards) = totalActivePlayers
             THEN "animating-play" ELSE gamePhase

\* playCard(roomId, playerNickname, cardId).  The callers pass a card of
\* the player's hand (handleCardSelect, handleBotCardSelection) and act
\* only once the hand is on screen, after the spinning phase.
PlayCard(playerNickname, cardId) ==
    /\ UNCHANGED <<allCards, callVars>>
    /\ gamePhase \notin {"absent", "spinning"}
    /\ playerCards[playerNickname][cardId] > 0
    /\ playCardWrites(playerNickname, cardId)
    /\ UNCHANGED <<status, currentRound, currentPlayer, playerCards,
                   selectedAttribute, roundWinner, gameWinner, roundHistory,
                   timers>>

\* selectAttributeAndProcess: write the attribute, arm the 1.5 s timer
SelectAttributeAndProcess(attribute) ==
    /\ UNCHANGED <<allCards, callVars>>
    /\ gamePhase \notin {"absent", "spinning"}
    /\ PendingChains < MaxTimers
    /\ selectedAttribute' = attribute
    /\ timers' = [timers EXCEPT !.process = @ + 1]
    /\ UNCHANGED <<status, gamePhase, currentRound, currentPlayer, playerCards,
                   currentRoundCards, roundWinner, gameWinner, roundHistory>>

\* faulty variant of processRoundResult: the 3 s timer is not armed
ProcessRoundResultNoTimer ==
    /\ UNCHANGED <<allCards, callVars>>
    /\ timers.process > 0
    /\ IF selectedAttribute = NULL \/ DOMAIN currentRoundCards = {}
       THEN /\ timers' = [timers EXCEPT !.process = @ - 1]
            /\ UNCHANGED storeVars
       ELSE /\ \E entries \in {Entries(currentRoundCards)} :
                  roundWinner' = compareWinner(entries, selectedAttribute, allCards)
            /\ gamePhase' = "comparing-on-table"
            /\ timers' = [timers EXCEPT !.process = @ - 1]
            /\ UNCHANGED <<status, currentRound, currentPlayer, playerCards,
                           currentRoundCards, selectedAttribute, gameWinner,
                           roundHistory>>

\* processRoundResult, run by the 1.5 s timer.  It throws before writing
\* when no attribute is set or when currentRoundCards is absent
\* (Object.entries(undefined)).
ProcessRoundResult ==
    /\ UNCHANGED <<allCards, callVars>>
    /\ timers.process > 0
    /\ IF selectedAttribute = NULL \/ DOMAIN currentRoundCards = {}
       THEN /\ timers' = [timers EXCEPT !.process = @ - 1]
            /\ UNCHANGED storeVars
       ELSE /\ \E entries \in {Entries(currentRoundCards)} :
                  roundWinner' = compareWinner(entries, selectedAttribute, allCards)
            /\ gamePhase' = "comparing-on-table"
            /\ timers' = [timers EXCEPT !.process = @ - 1, !.collect = @ + 1]
            /\ UNCHANGED <<status, currentRound, currentPlayer, playerCards,
                           currentRoundCards, selectedAttribute, gameWinner,
                           roundHistory>>

\* faulty variant of the collection: the played cards stay in the hands
collectedCardsNoFilter(hands, roundCards, winner) ==
    LET played(c) == Cardinality({p \in DOMAIN roundCards : roundCards[p] = c})
    IN [hands EXCEPT ![winner] = [c \in DOMAIN @ |-> @[c] + played(c)]]

\* hands after the filter loop and the winner's concatenation
collectedCards(hands, roundCards, winner) ==
    LET removed == [p \in DOMAIN hands |->
                      IF p \in DOMAIN roundCards
                      THEN [hands[p] EXCEPT ![roundCards[p]] = 0]
                      ELSE hands[p]]
        played(c) == Cardinality({p \in DOMAIN roundCards : roundCards[p] = c})
    IN [removed EXCEPT ![winner] = [c \in DOMAIN @ |-> @[c] + played(c)]]

\* the elimination loop over Object.keys(players).  A hand that was
\* already absent in the snapshot stays undefined in updatedPlayerCards,
\* and undefined?.length === 0 is false.
eliminate(st, hands, updatedPlayerCards) ==
    [p \in DOMAIN st |->
        IF /\ HandSize(updatedPlayerCards[p]) = 0
           /\ HandSize(hands[p]) > 0
           /\ st[p] = "active"
        THEN "eliminated" ELSE st[p]]

\* collect returns early without a round winner or attribute, and throws
\* before writing when a submitter's hand is absent (undefined.filter)
collectWrites ==
    ~ \/ roundWinner = NULL \/ roundWinner = NoWinner
      \/ selectedAttribute = NULL
      \/ \E p \in DOMAIN currentRoundCards : HandSize(playerCards[p]) = 0

\* faulty variant of the phase collect writes: finished at once when the
\* game has a winner
collectPhaseFinishing(winnerOfGame) ==
    IF winnerOfGame # NULL THEN "finished" ELSE "animating-win"

\* the phase collect writes next to gameWinner
collectPhase(winnerOfGame) == "animating-win"

\* collectWinningsAndPrepareNextRound, run by the 3 s timer
CollectWinningsAndPrepareNextRound ==
    /\ UNCHANGED <<allCards, callVars>>
    /\ timers.collect > 0
    /\ Len(roundHistory) < MaxHistory
    /\ IF ~collectWrites
       THEN /\ timers' = [timers EXCEPT !.collect = @ - 1]
            /\ UNCHANGED storeVars
       ELSE \E entries \in {Entries(currentRoundCards)},
               updatedPlayerCards \in
                   {collectedCards(playerCards, currentRoundCards, roundWinner)} :
            \E results \in {compareResults(entries, selectedAttribute, allCards)} :
            \E players \in {eliminate(status, playerCards, updatedPlayerCards)} :
            \E winnerOfGame \in {checkGameEnd(roomPlayers(players))} :
               /\ playerCards' = updatedPlayerCards
               /\ roundHistory' =
                     Append(roundHistory,
                            [roundNumber |-> currentRound,
                             selectedAttribute |-> selectedAttribute,
                             playerCards |-> results,
                             winner |-> roundWinner])
               /\ gamePhase' = collectPhase(winnerOfGame)
               /\ status' = players
               /\ gameWinner' = winnerOfGame
               /\ timers' = IF winnerOfGame # NULL
                            THEN [timers EXCEPT !.collect = @ - 1, !.finish = @ + 1]
                            ELSE [timers EXCEPT !.collect = @ - 1, !.next = @ + 1]
               /\ UNCHANGED <<currentRound, currentPlayer, currentRoundCards,
                              selectedAttribute, roundWinner>>

\* the 2 s timer of collect when it computed a game winner
FinishTimer ==
    /\ UNCHANGED <<allCards, callVars>>
    /\ timers.finish > 0
    /\ timers' = [timers EXCEPT !.finish = @ - 1]
    /\ gamePhase' = "finished"
    /\ UNCHANGED <<status, currentRound, currentPlayer, playerCards,
                   currentRoundCards, selectedAttribute, roundWinner,
                   gameWinner, roundHistory>>

\* faulty variant of startNextRound: currentPlayer is not written
StartNextRoundKeepLead ==
    /\ UNCHANGED <<allCards, callVars>>
    /\ timers.next > 0
    /\ currentRound < MaxRound
    /\ timers' = [timers EXCEPT !.next = @ - 1]
    /\ IF roundWinner = NULL
       THEN UNCHANGED storeVars
       ELSE /\ currentRound' = currentRound + 1
            /\ gamePhase' = "selecting"
            /\ currentRoundCards' = NoCards
            /\ selectedAttribute' = NULL
            /\ roundWinner' = NULL
            /\ UNCHANGED <<status, currentPlayer, playerCards, gameWinner,
                           roundHistory>>

\* startNextRound, run by the 2 s timer of collect when there is no game
\* winner.  currentPlayer is written from the snapshot's roundWinner: when
\* that is absent the store's update() rejects the undefined value and
\* nothing is written.
StartNextRound ==
    /\ UNCHANGED <<allCards, callVars>>
    /\ timers.next > 0
    /\ currentRound < MaxRound
    /\ timers' = [timers EXCEPT !.next = @ - 1]
    /\ IF roundWinner = NULL
       THEN UNCHANGED storeVars
       ELSE /\ currentRound' = currentRound + 1
            /\ currentPlayer' = roundWinner
            /\ gamePhase' = "selecting"
            /\ currentRoundCards' = NoCards
            /\ selectedAttribute' = NULL
            /\ roundWinner' = NULL
            /\ UNCHANGED <<status, playerCards, gameWinner, roundHistory>>

Next ==
    \/ StartGame
    \/ SpinTimer
    \/ \E p \in Seats, c \in CardIds : PlayCard(p, c)
    \/ \E a \in AttributesOf(allCards) : SelectAttributeAndProcess(a)
    \/ ProcessRoundResult
    \/ CollectWinningsAndPrepareNextRound
    \/ FinishTimer
    \/ StartNextRound

Spec == Init /\ [][Next]_vars

\* ------------------------------------- one round, three players, nine cards
\* a nine-card catalog; the card ids carry the Pop value
E2ECards ==
    << [id |-> "p100", attributes |-> [Pop |-> 100, Area |-> 9]],
       [id |-> "p200", attributes |-> [Pop |-> 200, Area |-> 8]],
       [id |-> "p300", attributes |-> [Pop |-> 300, Area |-> 7]],
       [id |-> "p400", attributes |-> [Pop |-> 400, Area |-> 6]],
       [id |-> "p500", attributes |-> [Pop |-> 500, Area |-> 5]],
       [id |-> "p600", attributes |-> [Pop |-> 600, Area |-> 4]],
       [id |-> "p700", attributes |-> [Pop |-> 700, Area |-> 3]],
       [id |-> "p800", attributes |-> [Pop |-> 800, Area |-> 2]],
       [id |-> "p900", attributes |-> [Pop |-> 900, Area |-> 1]] >>

E2ESeats == {"A", "B", "C"}

\* the three hands of a deal of three cards each
E2EDeal ==
    [p \in E2ESeats |->
        HandOf(CASE p = "A" -> <<"p500", "p100", "p800">>
                 [] p = "B" -> <<"p300", "p900", "p200">>
                 [] p = "C" -> <<"p700", "p400", "p600">>,
               CardIdsOf(E2ECards))]

\* the match as startGame and its 4 s timer leave it: the three hands
\* with any of the seats, and any lead
InitE2E ==
    /\ allCards = E2ECards
    /\ status = [p \in E2ESeats |-> "active"]
    /\ gamePhase = "selecting"
    /\ currentRound = 1
    /\ currentPlayer \in E2ESeats
    /\ \E f \in Permutations(E2ESeats) :
          playerCards = [p \in E2ESeats |-> E2EDeal[f[p]]]
    /\ currentRoundCards = NoCards
    /\ selectedAttribute = NULL
    /\ roundWinner = NULL
    /\ gameWinner = NULL
    /\ roundHistory = <<>>
    /\ timers = NoTimers
    /\ args = NoCall
    /\ result = NotCalled
    /\ clients = NoClients

\* every player submits one card of its hand in round 1
E2ESubmit ==
    \E p \in Seats, c \in CardIds :
        /\ currentRound = 1
        /\ gamePhase = "selecting"
        /\ p \notin DOMAIN currentRoundCards
        /\ PlayCard(p, c)

\* once all have submitted, the lead nominates an attribute
E2ENominate ==
    \E a \in AttributesOf(allCards) :
        /\ DOMAIN currentRoundCards = Seats
        /\ selectedAttribute = NULL
        /\ SelectAttributeAndProcess(a)

NextE2E ==
    \/ E2ESubmit
    \/ E2ENominate
    \/ ProcessRoundResult
    \/ CollectWinningsAndPrepareNextRound
    \/ StartNextRound

SpecE2E == InitE2E /\ [][NextE2E]_vars

\* every armed setTimeout callback eventually runs
SpecE2ELive ==
    /\ SpecE2E
    /\ WF_vars(ProcessRoundResult)
    /\ WF_vars(CollectWinningsAndPrepareNextRound)
    /\ WF_vars(StartNextRound)

\* ------------------------------------------ the game screen of each client
\* a four-card catalog for a table of three
TableCards ==
    << [id |-> "t1", attributes |-> [X |-> 4, Y |-> 1]],
       [id |-> "t2", attributes |-> [X |-> 3, Y |-> 2]],
       [id |-> "t3", attributes |-> [X |-> 2, Y |-> 3]],
       [id |-> "t4", attributes |-> [X |-> 1, Y |-> 4]] >>

TableSeats == {"A", "B", "C"}

InitGameScreen ==
    /\ Lobby(TableCards, TableSeats)
    /\ args = NoCall
    /\ result = NotCalled
    /\ clients = NoClients

\* faulty variant of handleCardSelect: any seat may send any card of the
\* catalog, with or without a hand
HandleCardSelectAnyCard(playerNickname, cardId) ==
    /\ UNCHANGED <<allCards, callVars>>
    /\ gamePhase = "selecting"
    /\ playerNickname # currentPlayer
    /\ playerNickname \notin DOMAIN currentRoundCards
    /\ playCardWrites(playerNickname, cardId)
    /\ UNCHANGED <<status, currentRound, currentPlayer, playerCards,
                   selectedAttribute, roundWinner, gameWinner, roundHistory,
                   timers>>

\* handleCardSelect of a player who is not the lead: the hand is on screen
\* only in the selecting phase and while the player has no entry
\* (hasPlayedCard), and the card goes to playCard at once
HandleCardSelect(playerNickname, cardId) ==
    /\ gamePhase = "selecting"
    /\ playerNickname # currentPlayer
    /\ playerNickname \notin DOMAIN currentRoundCards
    /\ PlayCard(playerNickname, cardId)

\* faulty variant of handleConfirmTurn: the attribute is sent without the
\* lead's card
HandleConfirmTurnNoCard(playerNickname, cardId, attribute) ==
    /\ UNCHANGED <<allCards, callVars>>
    /\ gamePhase = "selecting"
    /\ playerNickname = currentPlayer
    /\ playerNickname \notin DOMAIN currentRoundCards
    /\ playerCards[playerNickname][cardId] > 0
    /\ hasAttribute(allCards, cardId, attribute)
    /\ selectedAttribute' = attribute
    /\ timers' = [timers EXCEPT !.process = @ + 1]
    /\ UNCHANGED <<status, gamePhase, currentRound, currentPlayer, playerCards,
                   currentRoundCards, roundWinner, gameWinner, roundHistory>>

\* handleConfirmTurn of the lead: the confirm button is on screen in the
\* selecting phase while the lead has no entry and has picked a card of
\* its hand and an attribute of that card; it calls playCard and then
\* selectAttributeAndProcess
HandleConfirmTurn(playerNickname, cardId, attribute) ==
    /\ UNCHANGED <<allCards, callVars>>
    /\ gamePhase = "selecting"
    /\ playerNickname = currentPlayer
    /\ playerNickname \notin DOMAIN currentRoundCards
    /\ playerCards[playerNickname][cardId] > 0
    /\ hasAttribute(allCards, cardId, attribute)
    /\ playCardWrites(playerNickname, cardId)
    /\ selectedAttribute' = attribute
    /\ timers' = [timers EXCEPT !.process = @ + 1]
    /\ UNCHANGED <<status, currentRound, currentPlayer, playerCards,
                   roundWinner, gameWinner, roundHistory>>

NextGameScreen ==
    \/ StartGame
    \/ SpinTimer
    \/ \E p \in Seats, c \in CardIds : HandleCardSelect(p, c)
    \/ \E p \in Seats, c \in CardIds, a \in AttributesOf(allCards) :
          HandleConfirmTurn(p, c, a)
    \/ ProcessRoundResult
    \/ CollectWinningsAndPrepareNextRound
    \/ FinishTimer
    \/ StartNextRound

SpecGameScreen == InitGameScreen /\ [][NextGameScreen]_vars

\* every armed setTimeout callback eventually runs
SpecGameScreenLive ==
    /\ SpecGameScreen
    /\ WF_vars(SpinTimer)
    /\ WF_vars(ProcessRoundResult)
    /\ WF_vars(CollectWinningsAndPrepareNextRound)
    /\ WF_vars(FinishTimer)
    /\ WF_vars(StartNextRound)

\* ------------------------------------------------ the host's game screen
\* a room of one or two players whose selected deck has no card or three
InitHostScreen ==
    /\ \E cards \in {<< >>, DeckCards}, seats \in {{"A"}, {"A", "B"}} :
          Lobby(cards, seats)
    /\ args = NoCall
    /\ result = NotCalled
    /\ clients = NoClients

\* the host's client mounts GameScreen: useState<GameState | null>(null)
MountGameScreen ==
    /\ clients.screen = "unmounted"
    /\ clients' = [clients EXCEPT !.screen = "loading", !.effect = "idle"]
    /\ UNCHANGED <<allCards, storeVars, timers, args, result>>

\* the screen goes away (goBack, navigate('Lobby')) and unsubscribes
UnmountGameScreen ==
    /\ clients.screen # "unmounted"
    /\ clients' = [clients EXCEPT !.screen = "unmounted"]
    /\ UNCHANGED <<allCards, storeVars, timers, args, result>>

\* the callback of listenToGameState: setGameState(snapshot or null)
ListenToGameState ==
    /\ clients.screen # "unmounted"
    /\ clients' = [clients EXCEPT !.screen =
                      IF gamePhase = "absent" THEN "loading" ELSE "synced"]
    /\ UNCHANGED <<allCards, storeVars, timers, args, result>>

\* faulty variant of the start effect: startGame is called whatever the
\* deck and the number of players
HostStartEffectNoGuard ==
    /\ clients.screen = "loading"
    /\ clients.starts < MaxStarts
    /\ startGameWrites
    /\ clients' = [clients EXCEPT !.effect = "called", !.starts = @ + 1]
    /\ UNCHANGED <<allCards, args, result>>

\* the start effect of the host's screen and handleStartGame: they return
\* while the catalog is empty, once the local gameState is set, or with
\* fewer than 2 players, and call startGame otherwise
HostStartEffect ==
    /\ clients.screen = "loading"
    /\ UNCHANGED <<allCards, args, result>>
    /\ IF Len(allCards) = 0 \/ Cardinality(Seats) < 2
       THEN /\ clients' = [clients EXCEPT !.effect = "returned"]
            /\ UNCHANGED <<storeVars, timers>>
       ELSE /\ clients.starts < MaxStarts
            /\ startGameWrites
            /\ clients' = [clients EXCEPT !.effect = "called", !.starts = @ + 1]

NextHostScreen ==
    \/ MountGameScreen
    \/ UnmountGameScreen
    \/ ListenToGameState
    \/ HostStartEffect
    \/ SpinTimer
    \/ \E p \in Seats, c \in CardIds : HandleCardSelect(p, c)
    \/ \E p \in Seats, c \in CardIds, a \in AttributesOf(allCards) :
          HandleConfirmTurn(p, c, a)
    \/ ProcessRoundResult
    \/ CollectWinningsAndPrepareNextRound
    \/ FinishTimer
    \/ StartNextRound

SpecHostScreen == InitHostScreen /\ [][NextHostScreen]_vars

\* ------------------------------------------ playCard, one await at a time
\* the two get() of playCard: the caller keeps the number of active players
\* and the keys of currentRoundCards it read.  The screens call it for a
\* card of the player's hand, in the selecting phase, while the player's
\* snapshot shows no entry of its own.
PlayCardRead(playerNickname, cardId) ==
    /\ gamePhase = "selecting"
    /\ playerNickname \notin DOMAIN currentRoundCards
    /\ playerNickname \notin DOMAIN clients.plays
    /\ playerCards[playerNickname][cardId] > 0
    /\ clients' = [clients EXCEPT !.plays =
          [p \in DOMAIN @ \cup {playerNickname} |->
              IF p = playerNickname
              THEN [cardId |-> cardId,
                    totalActivePlayers |->
                        Cardinality({q \in Seats : status[q] = "active"}),
                    roundCards |-> DOMAIN currentRoundCards,
                    written |-> FALSE]
              ELSE @[p]]]
    /\ UNCHANGED <<allCards, storeVars, timers, args, result>>

\* the first update() of playCard: the caller's entry, at its own path
PlayCardWriteEntry(playerNickname) ==
    /\ playerNickname \in DOMAIN clients.plays
    /\ ~clients.plays[playerNickname].written
    /\ currentRoundCards' =
          [p \in DOMAIN currentRoundCards \cup {playerNickname} |->
              IF p = playerNickname
              THEN clients.plays[playerNickname].cardId
              ELSE currentRoundCards[p]]
    /\ clients' = [clients EXCEPT !.plays[playerNickname].written = TRUE]
    /\ UNCHANGED <<allCards, status, gamePhase, currentRound, currentPlayer,
                   playerCards, selectedAttribute, roundWinner, gameWinner,
                   roundHistory, timers, args, result>>

\* the end of playCard: updatedCards is the snapshot's map plus the
\* caller's entry, and the phase is written when its keys number the
\* active players
PlayCardWritePhase(playerNickname) ==
    /\ playerNickname \in DOMAIN clients.plays
    /\ clients.plays[playerNickname].written
    /\ gamePhase' =
          IF Cardinality(clients.plays[playerNickname].roundCards
                            \cup {playerNickname})
                = clients.plays[playerNickname].totalActivePlayers
          THEN "animating-play" ELSE gamePhase
    /\ clients' = [clients EXCEPT !.plays =
          [p \in DOMAIN @ \ {playerNickname} |-> @[p]]]
    /\ UNCHANGED <<allCards, status, currentRound, currentPlayer, playerCards,
                   currentRoundCards, selectedAttribute, roundWinner,
                   gameWinner, roundHistory, timers, args, result>>

NextConcurrent ==
    \/ StartGame
    \/ SpinTimer
    \/ \E p \in Seats, c \in CardIds : PlayCardRead(p, c)
    \/ \E p \in Seats : PlayCardWriteEntry(p)
    \/ \E p \in Seats : PlayCardWritePhase(p)

SpecConcurrent == Init /\ [][NextConcurrent]_vars

\* ------------------------- the older revision: resolution by the screens
\* playCard of the older gameService: the entry, then phase revealing when
\* the entries number the players of the room
OlderPlayCardWrites(playerNickname, cardId) ==
    LET totalPlayers == Cardinality(Seats)
        updatedCards ==
           [p \in DOMAIN currentRoundCards \cup {playerNickname} |->
               IF p = playerNickname THEN cardId ELSE currentRoundCards[p]]
    IN /\ currentRoundCards' = updatedCards
       /\ gamePhase' =
             IF Cardinality(DOMAIN updatedCards) = totalPlayers
             THEN "revealing" ELSE gamePhase

\* handleCardSelect of a player who is not the lead, older GameScreen: a
\* card of the hand is selectable while the player has no entry
OlderHandleCardSelect(playerNickname, cardId) ==
    /\ gamePhase = "selecting"
    /\ playerNickname # currentPlayer
    /\ playerNickname \notin DOMAIN currentRoundCards
    /\ playerCards[playerNickname][cardId] > 0
    /\ OlderPlayCardWrites(playerNickname, cardId)
    /\ UNCHANGED <<allCards, callVars, status, currentRound, currentPlayer,
                   playerCards, selectedAttribute, roundWinner, gameWinner,
                   roundHistory, timers>>

\* handleConfirmTurn of the lead, older GameScreen: playCard, then
\* selectAttribute, which writes the attribute and nothing else
OlderHandleConfirmTurn(playerNickname, cardId, attribute) ==
    /\ gamePhase = "selecting"
    /\ playerNickname = currentPlayer
    /\ playerNickname \notin DOMAIN currentRoundCards
    /\ playerCards[playerNickname][cardId] > 0
    /\ hasAttribute(allCards, cardId, attribute)
    /\ OlderPlayCardWrites(playerNickname, cardId)
    /\ selectedAttribute' = attribute
    /\ UNCHANGED <<allCards, callVars, status, currentRound, currentPlayer,
                   playerCards, roundWinner, gameWinner, roundHistory, timers>>

\* checkGameEnd of the older gameUtils: the only player left with cards
OlderCheckGameEnd(hands) ==
    LET playersWithCards == {p \in DOMAIN hands : HandSize(hands[p]) > 0}
    IN IF Cardinality(playersWithCards) = 1
       THEN CHOOSE p \in playersWithCards : TRUE
       ELSE NULL

\* the update processRoundResult of the older gameService computes from
\* the gameState it is handed
OlderRoundUpdates ==
    LET entries == Entries(currentRoundCards)
        winner == compareWinner(entries, selectedAttribute, allCards)
        updatedPlayerCards == collectedCards(playerCards, currentRoundCards, winner)
        winnerOfGame == OlderCheckGameEnd(updatedPlayerCards)
    IN [roundWinner |-> winner,
        gameWinner |-> winnerOfGame,
        playerCards |-> updatedPlayerCards,
        roundHistory |->
            Append(roundHistory,
                   [roundNumber |-> currentRound,
                    selectedAttribute |-> selectedAttribute,
                    playerCards |-> compareResults(entries, selectedAttribute, allCards),
                    winner |-> winner]),
        gamePhase |-> IF winnerOfGame # NULL THEN "finished" ELSE "comparing",
        currentPlayer |-> winner]

\* the round-processing effect of a client's GameScreen: on a revealing
\* snapshot with an attribute and one entry per active player, and with
\* no call of its own in progress (isProcessingRound), it calls
\* processRoundResult with that snapshot; the update is then on its way
RoundProcessingEffect(client) ==
    /\ gamePhase = "revealing"
    /\ client \notin DOMAIN clients.writes
    /\ Cardinality(DOMAIN currentRoundCards)
          = Cardinality({p \in Seats : status[p] = "active"})
    /\ selectedAttribute # NULL
    /\ \E updates \in {OlderRoundUpdates} :
          clients' = [clients EXCEPT !.writes =
             [c \in DOMAIN @ \cup {client} |->
                 IF c = client THEN updates ELSE @[c]]]
    /\ UNCHANGED <<allCards, storeVars, timers, args, result>>

\* the update() of that call reaches the store
OlderProcessRoundResult(client) ==
    /\ client \in DOMAIN clients.writes
    /\ roundWinner' = clients.writes[client].roundWinner
    /\ gameWinner' = clients.writes[client].gameWinner
    /\ playerCards' = clients.writes[client].playerCards
    /\ roundHistory' = clients.writes[client].roundHistory
    /\ gamePhase' = clients.writes[client].gamePhase
    /\ currentPlayer' = clients.writes[client].currentPlayer
    /\ clients' = [clients EXCEPT !.writes =
          [c \in DOMAIN @ \ {client} |-> @[c]]]
    /\ UNCHANGED <<allCards, status, currentRound, currentRoundCards,
                   selectedAttribute, timers, args, result>>

\* the host's 5 s timer while the result modal of the current round is
\* shown in phase comparing: handleNextRound, startNextRound
OlderStartNextRound ==
    /\ gamePhase = "comparing"
    /\ Len(roundHistory) > 0
    /\ roundHistory[Len(roundHistory)].roundNumber = currentRound
    /\ currentRound < MaxRound
    /\ currentRound' = currentRound + 1
    /\ gamePhase' = "selecting"
    /\ currentRoundCards' = NoCards
    /\ selectedAttribute' = NULL
    /\ roundWinner' = NULL
    /\ UNCHANGED <<allCards, callVars, status, currentPlayer, playerCards,
                   gameWinner, roundHistory, timers>>

NextOlder ==
    \/ StartGame
    \/ SpinTimer
    \/ \E p \in Seats, c \in CardIds : OlderHandleCardSelect(p, c)
    \/ \E p \in Seats, c \in CardIds, a \in AttributesOf(allCards) :
          OlderHandleConfirmTurn(p, c, a)
    \/ \E client \in Seats : RoundProcessingEffect(client)
    \/ \E client \in Seats : OlderProcessRoundResult(client)
    \/ OlderStartNextRound

SpecOlder == Init /\ [][NextOlder]_vars

\* ------------------------------------------------------ the bot controller
\* a table of one human and one bot (isBot, added by addBotToRoom)
BotTable == {"A", "B"}

BotSeats == {"B"}

InitBot ==
    /\ Lobby(DeckCards, BotTable)
    /\ args = NoCall
    /\ result = NotCalled
    /\ clients = NoClients

\* what the controller on a client's device saw last (useRef('') and
\* useRef(0) before its first run) and its processedActions
lastSeenBy(client) ==
    IF client \in DOMAIN clients.lastSeen
    THEN clients.lastSeen[client] ELSE <<"", "", 0>>

processedBy(client) ==
    IF client \in DOMAIN clients.processedActions
    THEN clients.processedActions[client] ELSE {}

\* the effect of the BotController that the game screen of a human
\* player's device renders.  It runs when the phase, the lead or the round
\* differs from what it saw last, outside the spinning phase;
\* handleBotActions returns unless the lead is a bot and the action key is
\* new, and otherwise calls executeBotAction for the lead with the
\* gameState on screen.  executeBotAction returns before the delay when
\* the bot is eliminated.
BotEffect(client) ==
    /\ gamePhase \notin {"absent", "spinning"}
    /\ Len(allCards) > 0
    /\ <<gamePhase, currentPlayer, currentRound>> # lastSeenBy(client)
    /\ LET gamePhaseChanged == lastSeenBy(client)[1] # gamePhase
           roundChanged == lastSeenBy(client)[3] # currentRound
           processed == IF gamePhaseChanged \/ roundChanged
                        THEN {} ELSE processedBy(client)
           actionKey == <<currentPlayer, gamePhase, currentRound>>
           acts == currentPlayer \in BotSeats /\ actionKey \notin processed
           called == acts /\ status[currentPlayer] # "eliminated"
       IN clients' =
            [clients EXCEPT
               !.lastSeen =
                   [c \in DOMAIN @ \cup {client} |->
                       IF c = client
                       THEN <<gamePhase, currentPlayer, currentRound>>
                       ELSE @[c]],
               !.processedActions =
                   [c \in DOMAIN @ \cup {client} |->
                       IF c # client THEN @[c]
                       ELSE IF acts THEN processed \cup {actionKey}
                       ELSE processed],
               !.botActions =
                   IF called
                   THEN @ \cup {[client |-> client,
                                 botName |-> currentPlayer,
                                 gameState |->
                                   [gamePhase |-> gamePhase,
                                    currentPlayer |-> currentPlayer,
                                    currentRound |-> currentRound,
                                    currentRoundCards |-> currentRoundCards,
                                    playerCards |-> playerCards,
                                    selectedAttribute |-> selectedAttribute]]}
                   ELSE @]
    /\ UNCHANGED <<allCards, storeVars, timers, args, result>>

\* faulty variant of executeBotAction: the bot plays any card of the
\* catalog
ExecuteBotActionAnyCard(action) ==
    /\ action \in clients.botActions
    /\ clients' = [clients EXCEPT !.botActions = @ \ {action}]
    /\ IF /\ action.gameState.gamePhase = "selecting"
          /\ action.botName \notin DOMAIN action.gameState.currentRoundCards
          /\ HandSize(action.gameState.playerCards[action.botName]) > 0
       THEN \E cardId \in CardIds : playCardWrites(action.botName, cardId)
       ELSE UNCHANGED <<currentRoundCards, gamePhase>>
    /\ UNCHANGED <<allCards, status, currentRound, currentPlayer, playerCards,
                   selectedAttribute, roundWinner, gameWinner, roundHistory,
                   timers, args, result>>

\* executeBotAction after the thinking delay, on the gameState it was
\* handed.  Selecting and no entry of the bot: handleBotCardSelection
\* plays a card of the bot's hand (selectBestCard), nothing when the hand
\* is empty.  The nomination runs only for a gameState in phase
\* revealing, and calls selectAttribute, which this gameService does not
\* export: the call throws, the error is logged, nothing is written.
ExecuteBotAction(action) ==
    /\ action \in clients.botActions
    /\ clients' = [clients EXCEPT !.botActions = @ \ {action}]
    /\ IF /\ action.gameState.gamePhase = "selecting"
          /\ action.botName \notin DOMAIN action.gameState.currentRoundCards
          /\ HandSize(action.gameState.playerCards[action.botName]) > 0
       THEN \E cardId \in CardIds :
               /\ action.gameState.playerCards[action.botName][cardId] > 0
               /\ playCardWrites(action.botName, cardId)
       ELSE UNCHANGED <<currentRoundCards, gamePhase>>
    /\ UNCHANGED <<allCards, status, currentRound, currentPlayer, playerCards,
                   selectedAttribute, roundWinner, gameWinner, roundHistory,
                   timers, args, result>>

\* the human players act through their screens, the bots through the
\* controller.  No hand of this table is ever emptied (a bot that is not
\* the lead never plays), so the finish timer is never armed.
NextBot ==
    \/ StartGame
    \/ SpinTimer
    \/ \E client \in Seats \ BotSeats : BotEffect(client)
    \/ \E action \in clients.botActions : ExecuteBotAction(action)
    \/ \E p \in Seats \ BotSeats, c \in CardIds : HandleCardSelect(p, c)
    \/ \E p \in Seats \ BotSeats, c \in CardIds, a \in AttributesOf(allCards) :
          HandleConfirmTurn(p, c, a)
    \/ ProcessRoundResult
    \/ CollectWinningsAndPrepareNextRound
    \/ StartNextRound

SpecBot == InitBot /\ [][NextBot]_vars

\* the effect runs after each render, every delay and timer elapses
SpecBotLive ==
    /\ SpecBot
    /\ WF_vars(SpinTimer)
    /\ WF_vars(\E client \in Seats \ BotSeats : BotEffect(client))
    /\ WF_vars(\E action \in clients.botActions : ExecuteBotAction(action))
    /\ WF_vars(ProcessRoundResult)
    /\ WF_vars(CollectWinningsAndPrepareNextRound)
    /\ WF_vars(StartNextRound)

\* executeBotAction when the store rejects the write of playCard: playCard
\* throws, handleBotCardSelection catches and logs the error, and
\* executeBotAction returns normally, so the catch of handleBotActions
\* does not run and the action key stays in processedActions
ExecuteBotActionRejected(action) ==
    /\ action \in clients.botActions
    /\ action.gameState.gamePhase = "selecting"
    /\ action.botName \notin DOMAIN action.gameState.currentRoundCards
    /\ HandSize(action.gameState.playerCards[action.botName]) > 0
    /\ clients' = [clients EXCEPT !.botActions = @ \ {action}]
    /\ UNCHANGED <<allCards, storeVars, timers, args, result>>

NextBotRejecting ==
    \/ NextBot
    \/ \E action \in clients.botActions : ExecuteBotActionRejected(action)

SpecBotRejecting == InitBot /\ [][NextBotRejecting]_vars

\* the effect runs after each render, every delay and timer elapses; a
\* write may be rejected
SpecBotRejectingLive ==
    /\ SpecBotRejecting
    /\ WF_vars(SpinTimer)
    /\ WF_vars(\E client \in Seats \ BotSeats : BotEffect(client))
    /\ WF_vars(\E action \in clients.botActions : ExecuteBotAction(action))
    /\ WF_vars(ProcessRoundResult)
    /\ WF_vars(CollectWinningsAndPrepareNextRound)
    /\ WF_vars(StartNextRound)

\* two humans and a bot at the table: a controller on each human's device
InitBotTable ==
    /\ Lobby(TableCards, TableSeats)
    /\ args = NoCall
    /\ result = NotCalled
    /\ clients = NoClients

SpecBotTable == InitBotTable /\ [][NextBot]_vars

\* --------------------------------------- a catalog with a missing attribute
\* four cards, two of them without the attribute Y
PartialCards ==
    << [id |-> "d1", attributes |-> [X |-> 3, Y |-> 1]],
       [id |-> "d2", attributes |-> [X |-> 2]],
       [id |-> "d3", attributes |-> [X |-> 1, Y |-> 2]],
       [id |-> "d4", attributes |-> [X |-> 4]] >>

InitPartial ==
    /\ Lobby(PartialCards, RoomPlayers)
    /\ args = NoCall
    /\ result = NotCalled
    /\ clients = NoClients

SpecPartial == InitPartial /\ [][NextGameScreen]_vars

\* every armed setTimeout callback eventually runs
SpecPartialLive ==
    /\ SpecPartial
    /\ WF_vars(SpinTimer)
    /\ WF_vars(ProcessRoundResult)
    /\ WF_vars(CollectWinningsAndPrepareNextRound)
    /\ WF_vars(FinishTimer)
    /\ WF_vars(StartNextRound)

\* ------------------------------------------------ calls of the pure helpers
MaxDeck == 5
MaxSeats == 4
MaxPlays == 3

\* a deck of n cards (ids 1..n) and the first k seats of a room
DeckOf(n) == [i \in 1..n |-> i]
SeatsOf(k) == SubSeq(SeatNames, 1, k)

\* a catalog with a tie on X (k2, k4), a zero value and a card without Y
CompareCards ==
    << [id |-> "k1", attributes |-> [X |-> 10, Y |-> 0]],
       [id |-> "k2", attributes |-> [X |-> 30, Y |-> 5]],
       [id |-> "k3", attributes |-> [X |-> 20]],
       [id |-> "k4", attributes |-> [X |-> 30, Y |-> 5]] >>

\* card ids a play may carry: the catalog's and one unknown to it
PlayedIds == CardIdsOf(CompareCards) \cup {"zz"}

DealArgs ==
    {[fn |-> "distributeCards", cards |-> DeckOf(n), players |-> SeatsOf(k)] :
        n \in 0..MaxDeck, k \in 2..MaxSeats}

\* the plays map as its entries in iteration order, one entry per player
CompareArgs ==
    LET names == Range(SeatsOf(MaxPlays))
        plays == UNION {{e \in [1..n -> names \X PlayedIds] :
                            \A i, j \in 1..n : e[i][1] = e[j][1] => i = j} :
                        n \in 0..MaxPlays}
    IN {[fn |-> "compareCards", roundCards |-> e, attribute |-> a] :
            e \in plays, a \in Attributes}

EndArgs ==
    LET names == Range(SeatsOf(MaxSeats))
    IN UNION {{[fn |-> "checkGameEnd",
                players |-> [p \in S |-> [nickname |-> p, status |-> st[p]]]] :
                  st \in [S -> {"active", "eliminated"}]} :
              S \in SUBSET names}

\* the attribute names and the greatest value of a bot's card
BotAttributes == {"X", "Y", "Z"}
MaxValue == 2

\* Object.entries(botCard.attributes) of a catalog card, in any insertion
\* order: at least one attribute, each name once
BotArgs ==
    LET cardEntries ==
           UNION {{e \in [1..n -> BotAttributes \X (0..MaxValue)] :
                      \A i, j \in 1..n : e[i][1] = e[j][1] => i = j} :
                  n \in 1..Cardinality(BotAttributes)}
    IN {[fn |-> "handleBotAttributeSelection", attributes |-> e, difficulty |-> d] :
            e \in cardEntries, d \in {"easy", "medium", "hard"}}

\* faulty variant of the scan: value < bestValue never holds from -1 on
\* non-negative values, the first attribute is kept
RECURSIVE bestAttributeLoopFirst(_, _, _, _)
bestAttributeLoopFirst(cardEntries, k, bestAttribute, bestValue) ==
    IF k > Len(cardEntries) THEN bestAttribute
    ELSE IF k = 1
         THEN bestAttributeLoopFirst(cardEntries, k + 1,
                                     cardEntries[k][1], cardEntries[k][2])
         ELSE bestAttributeLoopFirst(cardEntries, k + 1, bestAttribute, bestValue)

\* the forEach of handleBotAttributeSelection (and of findBestAttribute)
\* folded over the entries, from bestAttribute = '' and bestValue = -1
RECURSIVE bestAttributeLoop(_, _, _, _)
bestAttributeLoop(cardEntries, k, bestAttribute, bestValue) ==
    IF k > Len(cardEntries) THEN bestAttribute
    ELSE IF cardEntries[k][2] > bestValue
         THEN bestAttributeLoop(cardEntries, k + 1,
                                cardEntries[k][1], cardEntries[k][2])
         ELSE bestAttributeLoop(cardEntries, k + 1, bestAttribute, bestValue)

\* the attributes handleBotAttributeSelection can pass to selectAttribute:
\* any key for an easy bot (Math.random), the scan's result otherwise
botAttributeChoices(cardEntries, difficulty) ==
    IF difficulty = "easy"
    THEN {cardEntries[k][1] : k \in DOMAIN cardEntries}
    ELSE {bestAttributeLoop(cardEntries, 1, "", -1)}

\* getNextPlayer is given the lead and the Player records of the room
NextPlayerArgs ==
    LET names == Range(SeatsOf(MaxSeats))
    IN UNION {{[fn |-> "getNextPlayer",
                currentPlayer |-> c,
                players |-> [p \in S |-> [nickname |-> p, status |-> st[p]]]] :
                  st \in [S -> {"active", "eliminated"}], c \in S} :
              S \in SUBSET names \ {{}}}

\* indexOf, counted from 1: 0 stands for the -1 of a value not found
indexOf(arr, value) ==
    IF \E i \in DOMAIN arr : arr[i] = value
    THEN CHOOSE i \in DOMAIN arr :
            arr[i] = value /\ \A j \in DOMAIN arr : arr[j] = value => i <= j
    ELSE 0

\* getNextPlayer: the active nicknames in key order, the index of the
\* lead among them, the entry at (currentIndex + 1) % length
getNextPlayer(current, players) ==
    LET activePlayers ==
           KeysInOrder({p \in DOMAIN players : players[p].status = "active"})
    IN IF Len(activePlayers) = 0
       THEN current
       ELSE activePlayers[(indexOf(activePlayers, current) % Len(activePlayers)) + 1]

InitPure ==
    /\ Lobby(DeckCards, RoomPlayers)
    /\ args \in DealArgs \cup CompareArgs \cup EndArgs \cup BotArgs
                \cup NextPlayerArgs
    /\ result = NotCalled
    /\ clients = NoClients

CallDistributeCards ==
    /\ args.fn = "distributeCards"
    /\ result = NotCalled
    /\ \E shuffledCards \in shuffleArray(args.cards) :
          result' = [done |-> TRUE, ret |-> distributeCards(shuffledCards, args.players)]
    /\ UNCHANGED <<args, clients, allCards, storeVars, timers>>

CallCompareCards ==
    /\ args.fn = "compareCards"
    /\ result = NotCalled
    /\ result' = [done |-> TRUE, ret |->
          [winner |-> compareWinner(args.roundCards, args.attribute, CompareCards),
           results |-> compareResults(args.roundCards, args.attribute, CompareCards)]]
    /\ UNCHANGED <<args, clients, allCards, storeVars, timers>>

CallCheckGameEnd ==
    /\ args.fn = "checkGameEnd"
    /\ result = NotCalled
    /\ result' = [done |-> TRUE, ret |-> checkGameEnd(args.players)]
    /\ UNCHANGED <<args, clients, allCards, storeVars, timers>>

CallHandleBotAttributeSelection ==
    /\ args.fn = "handleBotAttributeSelection"
    /\ result = NotCalled
    /\ \E selected \in botAttributeChoices(args.attributes, args.difficulty) :
          result' = [done |-> TRUE, ret |-> selected]
    /\ UNCHANGED <<args, clients, allCards, storeVars, timers>>

CallGetNextPlayer ==
    /\ args.fn = "getNextPlayer"
    /\ result = NotCalled
    /\ result' = [done |-> TRUE,
                  ret |-> getNextPlayer(args.currentPlayer, args.players)]
    /\ UNCHANGED <<args, clients, allCards, storeVars, timers>>

NextPure ==
    \/ CallGetNextPlayer
    \/ CallHandleBotAttributeSelection
    \/ CallDistributeCards
    \/ CallCompareCards
    \/ CallCheckGameEnd

SpecPure == InitPure /\ [][NextPure]_vars

\* ------------------------------------------------------- naming a new bot
MaxNumbered == 2

\* BOT_NAMES
BOT_NAMES ==
    << "Bot Alpha", "Bot Beta", "Bot Gamma", "Bot Delta",
       "Bot Sigma", "Bot Omega", "Bot Prime", "Bot Neo",
       "Bot Zeta", "Bot Kappa", "Bot Lambda", "Bot Theta" >>

\* `Bot ${counter}` for the counters the scan can reach
NumberedNames == << "Bot 1", "Bot 2", "Bot 3", "Bot 4", "Bot 5" >>

\* Object.keys(currentPlayers) of addBotToRoom: a human host, any of the
\* predefined bot names, and numbered names left by earlier additions
BotNameArgs ==
    {[fn |-> "generateBotName", existingPlayers |-> {"A"} \cup named \cup numbered] :
        named \in SUBSET Range(BOT_NAMES),
        numbered \in SUBSET Range(SubSeq(NumberedNames, 1, MaxNumbered))}

\* faulty variant of the scan: the first numbered name is returned
\* without looking at the existing players
RECURSIVE numberedNameFirst(_, _)
numberedNameFirst(existingPlayers, counter) ==
    NumberedNames[counter]

\* the while loop of generateBotName, from counter = 1
RECURSIVE numberedName(_, _)
numberedName(existingPlayers, counter) ==
    IF NumberedNames[counter] \in existingPlayers
    THEN numberedName(existingPlayers, counter + 1)
    ELSE NumberedNames[counter]

\* the names generateBotName can return: the numbered name when every
\* predefined name is taken, any free predefined name otherwise
generateBotName(existingPlayers) ==
    LET availableNames == Range(BOT_NAMES) \ existingPlayers
    IN IF availableNames = {}
       THEN {numberedName(existingPlayers, 1)}
       ELSE availableNames

InitBotName ==
    /\ Lobby(DeckCards, RoomPlayers)
    /\ args \in BotNameArgs
    /\ result = NotCalled
    /\ clients = NoClients

\* addBotToRoom: the name for the seat it then writes
CallGenerateBotName ==
    /\ args.fn = "generateBotName"
    /\ result = NotCalled
    /\ \E botName \in generateBotName(args.existingPlayers) :
          result' = [done |-> TRUE, ret |-> botName]
    /\ UNCHANGED <<args, clients, allCards, storeVars, timers>>

SpecBotName == InitBotName /\ [][CallGenerateBotName]_vars

\* ------------------------------------------------------------------ claims
\* number of copies of a card id over all hands
Copies(c) ==
    Cardinality(UNION {{p} \X (1..playerCards[p][c]) : p \in Seats})

\* C1: once the match is started, every dealt card id is held exactly once
\* over all hands: none is lost, none appears in two hands or twice in one.
C1_CardsConserved ==
    gamePhase # "absent" => \A c \in CardIds : Copies(c) = 1

\* C2: the hands returned by distributeCards hold exactly the input card
\* ids, each id in exactly one hand and once, also when the deck size is
\* not a multiple of the number of players.
C2_DealPartitionsDeck ==
    (args.fn = "distributeCards" /\ result.done) =>
        LET hands == result.ret
        IN /\ DOMAIN hands = Range(args.players)
           /\ \A p \in DOMAIN hands : Range(hands[p]) \subseteq Range(args.cards)
           /\ \A c \in Range(args.cards) :
                 Cardinality({<<p, i>> \in UNION {{p} \X DOMAIN hands[p] : p \in DOMAIN hands} :
                                 hands[p][i] = c}) = 1

C2_Witness ==
    /\ args.fn = "distributeCards" /\ result.done
    /\ Len(args.cards) % Len(args.players) # 0
    /\ Len(args.cards) > Len(args.players)

\* C3: every player gets floor(|cards| / |players|) cards and the first
\* (|cards| mod |players|) players of the list get one more.
C3_DealSizes ==
    (args.fn = "distributeCards" /\ result.done) =>
        \A i \in DOMAIN args.players :
            Len(result.ret[args.players[i]]) =
                (Len(args.cards) \div Len(args.players))
                + (IF i <= Len(args.cards) % Len(args.players) THEN 1 ELSE 0)

C3_Witness ==
    /\ args.fn = "distributeCards" /\ result.done
    /\ Len(args.cards) % Len(args.players) >= 2

\* the plays of a compareCards call that carry the attribute, by position
PlaysHaving ==
    {k \in DOMAIN args.roundCards :
        hasAttribute(CompareCards, args.roundCards[k][2], args.attribute)}

PlayValue(k) == valueOf(CompareCards, args.roundCards[k][2], args.attribute)

GreatestPlays == {k \in PlaysHaving : \A j \in PlaysHaving : PlayValue(j) <= PlayValue(k)}

\* C4: compareCards returns as winner the player of the greatest value of
\* the attribute among the plays that have it, and among several greatest
\* plays the first in the iteration order of the plays.
C4_CompareWinner ==
    (args.fn = "compareCards" /\ result.done /\ PlaysHaving # {}) =>
        \E k \in GreatestPlays :
            /\ \A j \in GreatestPlays : k <= j
            /\ result.ret.winner = args.roundCards[k][1]

\* a tie for the greatest value whose first play is not the first entry,
\* next to a play that lacks the attribute
C4_Witness ==
    /\ args.fn = "compareCards" /\ result.done
    /\ Cardinality(GreatestPlays) >= 2
    /\ 1 \notin GreatestPlays
    /\ PlaysHaving # DOMAIN args.roundCards

\* C7: checkGameEnd returns the nickname of the sole active player when
\* exactly one player is active and null otherwise.
C7_CheckGameEnd ==
    (args.fn = "checkGameEnd" /\ result.done) =>
        LET active == {p \in DOMAIN args.players : args.players[p].status = "active"}
        IN /\ Cardinality(active) = 1 => result.ret \in active
           /\ Cardinality(active) # 1 => result.ret = NULL

C7_Witness ==
    /\ args.fn = "checkGameEnd" /\ result.done
    /\ Cardinality(DOMAIN args.players) >= 3
    /\ Cardinality({p \in DOMAIN args.players :
                      args.players[p].status = "active"}) = 1
    /\ result.ret # NULL

\* a run of collectWinningsAndPrepareNextRound that writes the round outcome
CollectStep == CollectWinningsAndPrepareNextRound /\ collectWrites

\* C5 as stated: collecting a round grows the winner's hand by the number
\* of players who played, shrinks every other submitter's hand by 1, and
\* leaves every player with an empty hand eliminated.
C5_CollectAsStated ==
    [][CollectStep =>
        /\ HandSize(playerCards'[roundWinner]) =
              HandSize(playerCards[roundWinner]) + Cardinality(DOMAIN currentRoundCards)
        /\ \A p \in DOMAIN currentRoundCards \ {roundWinner} :
              HandSize(playerCards'[p]) = HandSize(playerCards[p]) - 1
        /\ \A p \in Seats :
              HandSize(playerCards'[p]) = 0 => status'[p] = "eliminated"]_vars

\* C5 amended: collecting a round takes from every submitter its copies of
\* the card it submitted (one, when it holds the card once) and then gives
\* the winner one card per player who played, a net growth of the number
\* of players who played minus 1 for a winner holding its card once; every
\* player left with an empty hand is eliminated.
C5_CollectAmended ==
    [][CollectStep =>
        /\ HandSize(playerCards'[roundWinner]) =
              HandSize(playerCards[roundWinner])
              - playerCards[roundWinner][currentRoundCards[roundWinner]]
              + Cardinality(DOMAIN currentRoundCards)
        /\ \A p \in DOMAIN currentRoundCards \ {roundWinner} :
              HandSize(playerCards'[p]) =
                  HandSize(playerCards[p]) - playerCards[p][currentRoundCards[p]]
        /\ \A p \in DOMAIN currentRoundCards :
              playerCards[p][currentRoundCards[p]] = 1 =>
                  HandSize(playerCards'[p]) =
                      HandSize(playerCards[p]) - 1
                      + (IF p = roundWinner
                         THEN Cardinality(DOMAIN currentRoundCards) ELSE 0)
        /\ \A p \in Seats :
              HandSize(playerCards'[p]) = 0 => status'[p] = "eliminated"]_vars

\* the first round collected with both players in it: the winner went from
\* 2 cards to 3, the other from 1 to 0 and is eliminated
C5_Witness ==
    /\ Len(roundHistory) = 1
    /\ gamePhase = "animating-win"
    /\ DOMAIN currentRoundCards = Seats
    /\ roundWinner \in Seats
    /\ HandSize(playerCards[roundWinner]) = 3
    /\ \E p \in Seats \ {roundWinner} :
          HandSize(playerCards[p]) = 0 /\ status[p] = "eliminated"

ActivePlayers == {p \in Seats : status[p] = "active"}

\* C8 as stated: a game winner is recorded only with exactly one active
\* player and gamePhase finished.
C8_WinnerMeansFinished ==
    gameWinner # NULL =>
        Cardinality(ActivePlayers) = 1 /\ gamePhase = "finished"

\* C8 amended: a recorded game winner is the only active player, and the
\* write that records it sets gamePhase to animating-win; finished is
\* written later, by the 2 s timer.
C8_WinnerIsSoleActive ==
    [][/\ gameWinner' # NULL => ActivePlayers' = {gameWinner'}
       /\ (gameWinner' # gameWinner /\ gameWinner' # NULL) =>
              gamePhase' = "animating-win"]_vars

C8_Witness ==
    /\ gameWinner # NULL
    /\ gamePhase = "animating-win"
    /\ ActivePlayers = {gameWinner}
    /\ timers.finish > 0

\* C9: playCard outside the selecting phase, or by a player who already
\* has an entry in currentRoundCards, leaves the store unchanged.
C9_PlayCardGuarded ==
    [][\A p \in Seats, c \in CardIds :
          (/\ PlayCard(p, c)
           /\ ~(gamePhase = "selecting" /\ p \notin DOMAIN currentRoundCards))
          => UNCHANGED storeVars]_vars

\* C10: a second playCard with the same player and card in the same round
\* leaves the store as the first call left it.
C10_PlayCardIdempotent ==
    [][\A p \in Seats, c \in CardIds :
          (/\ PlayCard(p, c)
           /\ p \in DOMAIN currentRoundCards
           /\ currentRoundCards[p] = c)
          => UNCHANGED storeVars]_vars

\* round 1 is on the table with the cards worth 500, 300 and 700 and the
\* lead has nominated Pop
E2EPlayed ==
    /\ currentRound = 1
    /\ DOMAIN currentRoundCards = Seats
    /\ {currentRoundCards[p] : p \in Seats} = {"p500", "p300", "p700"}
    /\ selectedAttribute = "Pop"

\* round 1 is in the history with the values 500, 300 and 700 on Pop
E2ECollected ==
    /\ Len(roundHistory) = 1
    /\ roundHistory[1].selectedAttribute = "Pop"
    /\ DOMAIN roundHistory[1].playerCards = Seats
    /\ {roundHistory[1].playerCards[p].value : p \in Seats} = {500, 300, 700}

\* the player who submitted the card worth 700
E2EPlayer700 ==
    CHOOSE p \in Seats : roundHistory[1].playerCards[p].value = 700

\* round 2 is open with the 700-player as lead, holding 5 cards, and the
\* other two holding 2 each
E2ERound2 ==
    /\ E2ECollected
    /\ gamePhase = "selecting"
    /\ currentRound = 2
    /\ currentPlayer = E2EPlayer700
    /\ HandSize(playerCards[E2EPlayer700]) = 5
    /\ \A p \in Seats \ {E2EPlayer700} : HandSize(playerCards[p]) = 2

\* C6: three players with three cards each submit the cards worth 500,
\* 300 and 700 and the lead nominates Pop: the round resolves with the
\* 700-player as round winner, that player holds 5 cards after the
\* collection and the other two hold 2 each, and the match reaches round 2
\* with the round winner as lead.
C6_EndToEnd ==
    /\ [](E2EPlayed /\ roundWinner # NULL =>
             currentRoundCards[roundWinner] = "p700")
    /\ [](E2ECollected =>
             /\ roundHistory[1].winner = E2EPlayer700
             /\ HandSize(playerCards[E2EPlayer700]) = 5
             /\ \A p \in Seats \ {E2EPlayer700} : HandSize(playerCards[p]) = 2
             /\ gamePhase = "selecting" =>
                   (currentRound = 2 /\ currentPlayer = E2EPlayer700))
    /\ (E2EPlayed ~> E2ERound2)

\* round 2 reached that way with a 700-player who is not the last seat
C6_Witness ==
    /\ E2ERound2
    /\ E2EPlayer700 = "A"
    /\ timers = NoTimers

\* C11: selectAttributeAndProcess invoked while an attribute is already
\* set leaves selectedAttribute and the rest of the store unchanged.
C11_SelectGuarded ==
    [][\A a \in AttributesOf(allCards) :
          (SelectAttributeAndProcess(a) /\ selectedAttribute # NULL)
          => UNCHANGED storeVars]_vars

\* C12: every change of gamePhase is one step of the declared order
\* spinning, selecting, animating-play, comparing-on-table, animating-win,
\* then selecting or finished; the phase never skips a step and never
\* moves backward.  ("absent": no match written yet.)
C12_PhaseOrder ==
    [][gamePhase' # gamePhase =>
          <<gamePhase, gamePhase'>> \in
              { <<"absent", "spinning">>,
                <<"spinning", "selecting">>,
                <<"selecting", "animating-play">>,
                <<"animating-play", "comparing-on-table">>,
                <<"comparing-on-table", "animating-win">>,
                <<"animating-win", "selecting">>,
                <<"animating-win", "finished">> }]_vars

\* a run of processRoundResult that resolves the round and writes roundWinner
ResolveStep == ProcessRoundResult /\ timers'.collect = timers.collect + 1

\* C13: the round is resolved, and roundWinner written, only once every
\* active player has an entry in currentRoundCards.
C13_ResolveAfterAllSubmitted ==
    [][ResolveStep => ActivePlayers \subseteq DOMAIN currentRoundCards]_vars

\* a step that adds an entry to currentRoundCards
SubmitStep ==
    /\ DOMAIN currentRoundCards \subseteq DOMAIN currentRoundCards'
    /\ DOMAIN currentRoundCards' # DOMAIN currentRoundCards

NextRoundStep == StartNextRound /\ roundWinner # NULL

\* C15: when startNextRound opens the next round, currentPlayer is the
\* roundWinner of the round it closes, currentRound is one more than
\* before, currentRoundCards is empty and selectedAttribute and roundWinner
\* are null.
C15_NextRoundResets ==
    [][NextRoundStep =>
          /\ currentPlayer' = roundWinner
          /\ currentRound' = currentRound + 1
          /\ currentRoundCards' = NoCards
          /\ selectedAttribute' = NULL
          /\ roundWinner' = NULL]_vars

\* round 2 just opened with the winner recorded for round 1 as lead
C15_Witness ==
    /\ currentRound = 2
    /\ gamePhase = "selecting"
    /\ Len(roundHistory) = 1
    /\ currentPlayer = roundHistory[1].winner
    /\ currentPlayer = "B"
    /\ currentRoundCards = NoCards
    /\ selectedAttribute = NULL
    /\ roundWinner = NULL

\* C16: a repeated trigger of startNextRound for a round already advanced
\* changes nothing: every run that writes closes a round that has been
\* collected, so currentRound grows once per resolved round and the
\* entries of a round not yet collected are never erased.
C16_NextRoundOncePerRound ==
    [][NextRoundStep =>
          \E i \in DOMAIN roundHistory :
              roundHistory[i].roundNumber = currentRound]_vars

\* C17: while the round is not advanced a roundWinner once set keeps its
\* value, and the records of roundHistory never change.
C17_RoundWinnerStable ==
    [][/\ (roundWinner # NULL /\ currentRound' = currentRound) =>
             roundWinner' = roundWinner
       /\ \A i \in DOMAIN roundHistory :
             /\ i \in DOMAIN roundHistory'
             /\ roundHistory'[i] = roundHistory[i]]_vars

\* C20: once gamePhase is finished, gamePhase, the hands, currentRound and
\* gameWinner never change again.
C20_FinishedIsTerminal ==
    [][gamePhase = "finished" =>
          UNCHANGED <<gamePhase, playerCards, currentRound, gameWinner>>]_vars

\* C18 as stated: the keys of currentRoundCards are players with status
\* active.
C18_PlaysOfActivePlayers ==
    gamePhase # "absent" => DOMAIN currentRoundCards \subseteq ActivePlayers

\* the players of the records collected for the current round
CollectedThisRound ==
    UNION {DOMAIN roundHistory[i].playerCards :
              i \in {j \in DOMAIN roundHistory :
                        roundHistory[j].roundNumber = currentRound}}

\* C18 amended: an entry is added to currentRoundCards only for a player
\* with status active, and a key whose player is not active belongs to a
\* player of the collected record of the current round (the collection
\* eliminates it and the entry stays until the round is advanced).
C18_PlaysOfActiveOrCollected ==
    [][/\ \A p \in DOMAIN currentRoundCards' \ DOMAIN currentRoundCards :
             status[p] = "active"
       /\ DOMAIN currentRoundCards' \subseteq
             ActivePlayers' \cup CollectedThisRound']_vars

\* a collected round at a table of three: the entry of the player it
\* eliminated is still in currentRoundCards and the match goes on
C18_Witness ==
    /\ gamePhase = "animating-win"
    /\ gameWinner = NULL
    /\ \E p \in DOMAIN currentRoundCards :
          status[p] = "eliminated" /\ p \in CollectedThisRound

\* C19: selectedAttribute is set only while the lead has an entry in
\* currentRoundCards.
C19_AttributeAfterLeadPlayed ==
    selectedAttribute # NULL => currentPlayer \in DOMAIN currentRoundCards

\* the lead of round 2 has confirmed its turn and the others have not yet
\* submitted
C19_Witness ==
    /\ currentRound = 2
    /\ gamePhase = "selecting"
    /\ selectedAttribute # NULL
    /\ DOMAIN currentRoundCards = {currentPlayer}

\* the value the bot's card has for an attribute name
BotCardValue(a) ==
    args.attributes[CHOOSE k \in DOMAIN args.attributes : args.attributes[k][1] = a][2]

BotCardKeys == {args.attributes[k][1] : k \in DOMAIN args.attributes}

\* C23: the attribute a medium or hard bot nominates is a key of its card
\* whose value is the greatest of the card; the attribute an easy bot
\* nominates is a key of its card.
C23_BotAttribute ==
    (args.fn = "handleBotAttributeSelection" /\ result.done) =>
        /\ result.ret \in BotCardKeys
        /\ args.difficulty # "easy" =>
              \A a \in BotCardKeys : BotCardValue(a) <= BotCardValue(result.ret)

\* a hard bot has nominated the second of three attributes, the greatest
\* one, with a tie behind it
C23_Witness ==
    /\ args.fn = "handleBotAttributeSelection"
    /\ result.done
    /\ args.difficulty = "hard"
    /\ Len(args.attributes) = 3
    /\ result.ret = args.attributes[2][1]
    /\ args.attributes[2][2] = args.attributes[3][2]
    /\ args.attributes[1][2] < args.attributes[2][2]

\* C27: roundHistory is append-only: a step leaves it alone or appends one
\* record carrying the round's number, attribute and winner, with a round
\* number above those of all the records before it.
C27_HistoryAppendOnly ==
    [][\/ roundHistory' = roundHistory
       \/ /\ Len(roundHistory') = Len(roundHistory) + 1
          /\ SubSeq(roundHistory', 1, Len(roundHistory)) = roundHistory
          /\ roundHistory'[Len(roundHistory')].roundNumber = currentRound
          /\ roundHistory'[Len(roundHistory')].selectedAttribute = selectedAttribute
          /\ roundHistory'[Len(roundHistory')].winner = roundWinner
          /\ \A i \in DOMAIN roundHistory :
                roundHistory[i].roundNumber < currentRound]_vars

\* the players whose played card is in the catalog and has the attribute
Compared(roundCards, attribute) ==
    {p \in DOMAIN roundCards : hasAttribute(allCards, roundCards[p], attribute)}

\* a resolved round in which a play was left out of the comparison
ExcludedPlay ==
    /\ gamePhase = "comparing-on-table"
    /\ roundWinner # NULL
    /\ Compared(currentRoundCards, selectedAttribute) # DOMAIN currentRoundCards

C25_StartThenSelecting ==
    /\ [][StartGame =>
            /\ gamePhase' = "spinning"
            /\ currentRound' = 1
            /\ currentPlayer' \in Seats
            /\ currentRoundCards' = NoCards
            /\ selectedAttribute' = NULL
            /\ roundWinner' = NULL
            /\ gameWinner' = NULL]_vars
    /\ (gamePhase = "spinning") ~> (gamePhase = "selecting")

\* the 4 s timer has run: round 1 is open for submissions
C25_Witness ==
    /\ gamePhase = "selecting"
    /\ currentRound = 1
    /\ timers = NoTimers
    /\ currentPlayer \in Seats
    /\ currentRoundCards = NoCards
    /\ roundHistory = <<>>

\* C24: with fewer than 2 players or an empty deck no match is started:
\* startGame is not called and the store holds no match.
C24_NoStartOnInvalidDeal ==
    (Cardinality(Seats) < 2 \/ Len(allCards) = 0) =>
        /\ clients.effect # "called"
        /\ gamePhase = "absent"
        /\ timers = NoTimers
        /\ \A p \in Seats : HandSize(playerCards[p]) = 0

\* the host's start effect has run in a room of one player with a deck,
\* and returned
C24_Witness ==
    /\ Cardinality(Seats) = 1
    /\ Len(allCards) > 0
    /\ clients.screen = "loading"
    /\ clients.effect = "returned"

\* C26: once the match of a room exists, startGame is not run again: no
\* step arms another spin timer, deals again or resets currentRound.
C26_MatchCreatedOnce ==
    [][gamePhase # "absent" =>
          /\ timers'.spin <= timers.spin
          /\ currentRound' >= currentRound]_vars

\* C29: once every call of playCard has completed, currentRoundCards holds
\* every submission, and when all the active players have submitted the
\* phase is no longer selecting.
C29_ConcurrentPlaysAdvance ==
    (gamePhase \notin {"absent", "spinning"} /\ DOMAIN clients.plays = {}) =>
        (ActivePlayers \subseteq DOMAIN currentRoundCards => gamePhase # "selecting")

\* C30: a resolution of a round that already has its record in
\* roundHistory changes nothing: the state is that of a single resolution.
C30_RepeatedResolutionIsNoOp ==
    [][\A client \in Seats :
          (/\ OlderProcessRoundResult(client)
           /\ \E i \in DOMAIN roundHistory :
                 roundHistory[i].roundNumber
                    = clients.writes[client].roundHistory[
                          Len(clients.writes[client].roundHistory)].roundNumber)
          => UNCHANGED storeVars]_vars

\* C21: in the selecting phase an active bot that has not submitted a
\* card eventually submits one, whether or not it is the lead.
C21_BotEventuallySubmits ==
    \A b \in BotSeats :
       (/\ gamePhase = "selecting"
        /\ status[b] = "active"
        /\ b \notin DOMAIN currentRoundCards)
       ~> (b \in DOMAIN currentRoundCards)

\* C22: a bot lead that has submitted its card while no attribute is
\* selected eventually nominates one.
C22_BotLeadEventuallyNominates ==
    (/\ gamePhase = "selecting"
     /\ currentPlayer \in BotSeats
     /\ currentPlayer \in DOMAIN currentRoundCards
     /\ selectedAttribute = NULL)
    ~> (selectedAttribute # NULL)

\* C31: a timer callback that fires when the phase is no longer the one it
\* was armed for (spinning for the 4 s timer, selecting or animating-play
\* for the 1.5 s timer, comparing-on-table for the 3 s timer,
\* animating-win for the 2 s timer) changes nothing in the store.
C31_StaleTimerIsNoOp ==
    [][(\/ SpinTimer /\ gamePhase # "spinning"
        \/ ProcessRoundResult /\ gamePhase \notin {"selecting", "animating-play"}
        \/ CollectWinningsAndPrepareNextRound /\ gamePhase # "comparing-on-table"
        \/ (FinishTimer \/ StartNextRound) /\ gamePhase # "animating-win")
       => UNCHANGED storeVars]_vars

\* C32: for a given bot, round and phase, executeBotAction is issued at
\* most once: no two calls for the same bot, round and phase are under way.
C32_BotActionIssuedOnce ==
    \A a1, a2 \in clients.botActions :
       (/\ a1.botName = a2.botName
        /\ a1.gameState.currentRound = a2.gameState.currentRound
        /\ a1.gameState.gamePhase = a2.gameState.gamePhase)
       => a1 = a2

\* C33: a bot lead whose submission was rejected retries on the next
\* notification: in the selecting phase an active bot lead without an
\* entry eventually has one, also when a write of its card was rejected.
C33_BotRetriesAfterRejection ==
    \A b \in BotSeats :
       (/\ gamePhase = "selecting"
        /\ currentPlayer = b
        /\ status[b] = "active"
        /\ b \notin DOMAIN currentRoundCards)
       ~> (b \in DOMAIN currentRoundCards)

C36_RoundWinnerPlayed ==
    roundWinner # NULL =>
       /\ roundWinner # NoWinner
       /\ roundWinner \in DOMAIN currentRoundCards

\* a round winner written while one of the two plays lacks the attribute
C36_Witness ==
    /\ gamePhase = "comparing-on-table"
    /\ roundWinner \in DOMAIN currentRoundCards
    /\ Cardinality(DOMAIN currentRoundCards) = 2
    /\ \E p \in DOMAIN currentRoundCards :
          ~hasAttribute(allCards, currentRoundCards[p], selectedAttribute)

C38_PlayCardFrame ==
    [][\A p \in Seats :
          (\E c \in CardIds : PlayCard(p, c)) =>
             /\ UNCHANGED <<status, playerCards, currentRound, currentPlayer,
                            selectedAttribute, roundWinner, gameWinner,
                            roundHistory>>
             /\ DOMAIN currentRoundCards' = DOMAIN currentRoundCards \cup {p}
             /\ \A q \in DOMAIN currentRoundCards \ {p} :
                   currentRoundCards'[q] = currentRoundCards[q]
             /\ gamePhase' # gamePhase =>
                   Cardinality(DOMAIN currentRoundCards')
                      = Cardinality({q \in Seats : status[q] = "active"})]_vars

\* the second play of a round has completed it, the first entry is kept
C38_Witness ==
    /\ gamePhase = "animating-play"
    /\ selectedAttribute = NULL
    /\ Cardinality(DOMAIN currentRoundCards) = 2
    /\ timers.process = 0

\* the players after the lead in cyclic key order, the lead last
CyclicAfter(current, players) ==
    LET keys == KeysInOrder(DOMAIN players)
        n == Len(keys)
        at == CHOOSE i \in 1..n : keys[i] = current
    IN [d \in 1..n |-> keys[((at + d - 1) % n) + 1]]

\* C39: getNextPlayer returns the first active player after currentPlayer
\* in cyclic key order, and currentPlayer itself when no player is active.
C39_GetNextPlayer ==
    (args.fn = "getNextPlayer" /\ result.done) =>
        LET order == CyclicAfter(args.currentPlayer, args.players)
            active == {d \in DOMAIN order : args.players[order[d]].status = "active"}
        IN IF active = {}
           THEN result.ret = args.currentPlayer
           ELSE result.ret = order[CHOOSE d \in active : \A e \in active : d <= e]

\* C40: generateBotName returns a name that none of the existing players
\* has, also when the twelve predefined names are all taken, so the seat
\* addBotToRoom writes is a new one.
C40_BotNameIsNew ==
    (args.fn = "generateBotName" /\ result.done) =>
        result.ret \notin args.existingPlayers

\* every predefined name and the first numbered name are taken
C40_Witness ==
    /\ args.fn = "generateBotName" /\ result.done
    /\ Range(BOT_NAMES) \subseteq args.existingPlayers
    /\ NumberedNames[1] \in args.existingPlayers
    /\ result.ret \in Range(NumberedNames)

====
